---------------------------- MODULE Spec2Model ----------------------------
(***************************************************************************)
(* Model of src/llm_providers/openai.py: the OpenAILLM client.  One client *)
(* object (its configuration and its session reference), the generate()   *)
(* and close() coroutines as state machines with one position (pc, cpc)   *)
(* per call, which interleave at their awaits, and the remote service,    *)
(* the sessions' connection pools and the telemetry sink as the           *)
(* environment.                                                           *)
(***************************************************************************)
EXTENDS Integers, Sequences, FiniteSets, TLC

----------------------------------------------------------------------------
(* Bounds of the model *)

\* largest retry budget a client is constructed with
MaxRetries == 3
\* largest base retry delay (in clock ticks) a client is constructed with
MaxDelay == 2
\* longest "content" string the remote service answers with
MaxLen == 3
\* generate() calls that may exist on the one client
NumCalls == 6
\* close() calls that may exist on the one client
MaxCloses == 2
\* attempts after which the model stops following a call that keeps looping
MaxAttempts == MaxRetries + 2

Calls == 1..NumCalls
Closers == 1..MaxCloses

----------------------------------------------------------------------------
(* Text values *)

Chars == {" ", "a"}
Whitespace == {" "}

RECURSIVE SeqsUpTo(_)
SeqsUpTo(n) ==
    IF n = 0 THEN {<<>>}
    ELSE LET shorter == SeqsUpTo(n - 1)
         IN  shorter \cup {Append(s, ch) : s \in {t \in shorter : Len(t) = n - 1}, ch \in Chars}

Contents == SeqsUpTo(MaxLen)

RECURSIVE LStrip(_)
LStrip(s) == IF s # <<>> /\ Head(s) \in Whitespace THEN LStrip(Tail(s)) ELSE s

RECURSIVE RStrip(_)
RStrip(s) ==
    IF s # <<>> /\ s[Len(s)] \in Whitespace THEN RStrip(SubSeq(s, 1, Len(s) - 1)) ELSE s

\* a strip that forgets the trailing whitespace
StripLeadingOnly(s) == LStrip(s)

\* str.strip() of line 105
Strip(s) == RStrip(LStrip(s))

\* response_text = "" of line 78
EmptyText == <<>>

\* the fixed message of line 154
ErrorText == <<"E", "r", "r", "o", "r">>

----------------------------------------------------------------------------
(* The environment: what one attempt can meet *)

\* no exception
NoExc == "none"

\* what aiohttp.ClientSession(...) of line 31 can raise
AcquireExceptions == {"RuntimeError"}

\* what session.post(...) of line 95 can raise before any response arrives
PostExceptions == {"ClientConnectorError", "TimeoutError", "ServerDisconnectedError"}

\* how reading the body (response.json() line 103, response.text() lines 121, 127) ends
ReadResults == {NoExc, "TimeoutError", "ClientPayloadError"}

\* HTTP statuses the remote service answers with
Statuses == {200, 204, 400, 404, 408, 429, 500, 503}

\* shapes of a fully read 200 body: not JSON; JSON of another content type;
\* JSON without "choices"; with "choices": []; with a message without "content";
\* with "content": null; with "content": <string>
DocShapes ==
    {"invalid", "content_type", "no_choices", "empty_choices", "no_content",
     "null_content", "text"}

NoDoc == [shape |-> "none", content |-> EmptyText]

Docs ==
    {[shape |-> sh, content |-> EmptyText] : sh \in DocShapes \ {"text"}}
        \cup {[shape |-> "text", content |-> t] : t \in Contents}

NoOutcome == [exc |-> NoExc, status |-> 0, read |-> NoExc, doc |-> NoDoc]

\* the outcomes of session.post and of reading its response
Outcomes ==
    {[exc |-> e, status |-> 0, read |-> NoExc, doc |-> NoDoc] : e \in PostExceptions}
  \cup
    {[exc |-> NoExc, status |-> s, read |-> r, doc |-> NoDoc] :
        s \in Statuses, r \in ReadResults \ {NoExc}}
  \cup
    {[exc |-> NoExc, status |-> s, read |-> NoExc, doc |-> NoDoc] : s \in Statuses \ {200}}
  \cup
    {[exc |-> NoExc, status |-> 200, read |-> NoExc, doc |-> d] : d \in Docs}

\* the exception classes that derive from Exception (all that an attempt meets)
ExceptionSubclasses ==
    AcquireExceptions \cup PostExceptions \cup (ReadResults \ {NoExc})
        \cup {"JSONDecodeError", "ContentTypeError", "KeyError", "IndexError",
              "AttributeError", "ValueError"}

\* what the telemetry sink raises when it fails
SinkError == "SinkError"

----------------------------------------------------------------------------
(* Values of last_error *)

None == [type |-> "None", status |-> 0]

\* an exception object caught in an except clause (last_error = e)
Caught(e) == [type |-> e, status |-> 0]

\* Exception(f"OpenAI API Error ({response.status}): ...") of lines 122, 128
ApiError(status) == [type |-> "Exception", status |-> status]

\* ValueError("Empty response from OpenAI") of line 108
EmptyResponse == [type |-> "ValueError", status |-> 0]

----------------------------------------------------------------------------
(* One attempt: lines 93-139 as a function of what the attempt meets *)

\* the status test of line 119
IsRetryableStatus(status) == status \in {408, 429} \/ status >= 500

\* the exception lines 103-105 raise on a 200 response, NoExc when they raise none:
\* response.json() fails to read or to parse; result["choices"][0]["message"]["content"]
\* meets a missing key, an empty list or a null; .strip() of a string raises nothing
RaisedIn200(o) ==
    IF o.read # NoExc THEN o.read
    ELSE CASE o.doc.shape = "invalid"       -> "JSONDecodeError"
           [] o.doc.shape = "content_type"  -> "ContentTypeError"
           [] o.doc.shape = "no_choices"    -> "KeyError"
           [] o.doc.shape = "empty_choices" -> "IndexError"
           [] o.doc.shape = "no_content"    -> "KeyError"
           [] o.doc.shape = "null_content"  -> "AttributeError"
           [] OTHER                         -> NoExc

\* except (json.JSONDecodeError, KeyError) of line 115
InnerHandles(e) == e \in {"JSONDecodeError", "KeyError"}

\* except (aiohttp.ClientConnectorError, asyncio.TimeoutError) of line 132
ConnHandles(e) == e \in {"ClientConnectorError", "TimeoutError"}

\* a last except clause that names aiohttp's connection errors only
HandlesConnectionErrorsOnly(e) == e \in PostExceptions

\* except Exception of line 136
GenericHandles(e) == e \in ExceptionSubclasses

\* what the body of an attempt leaves behind: the locals it assigned, by how much
\* it raised retries, how control leaves the try statement, the exception in flight
Effect(text, err, last, inc, ctl, exc) ==
    [text |-> text, err |-> err, last |-> last, inc |-> inc, ctl |-> ctl, exc |-> exc]

\* the branch of status 200 without the test of line 106
Branch200WithoutEmptyTest(o, text, err, last) ==
    LET e == RaisedIn200(o)
    IN  IF e = NoExc
        THEN Effect(Strip(o.doc.content), FALSE, last, 0, "break", NoExc)
        ELSE IF InnerHandles(e)
             THEN Effect(text, err, Caught(e), 0, "next", NoExc)
             ELSE Effect(text, err, last, 0, "next", e)

\* lines 101-118: the branch of status 200
Branch200(o, text, err, last) ==
    LET e == RaisedIn200(o)
        stripped == Strip(o.doc.content)
    IN  IF e = NoExc
        THEN IF stripped = EmptyText
             THEN Effect(stripped, err, EmptyResponse, 1, "continue", NoExc)
             ELSE Effect(stripped, FALSE, last, 0, "break", NoExc)
        ELSE IF InnerHandles(e)
             THEN Effect(text, err, Caught(e), 0, "next", NoExc)
             ELSE Effect(text, err, last, 0, "next", e)

\* lines 119-124: the branch of the retryable statuses
BranchRetryable(o, text, err, last) ==
    IF o.read # NoExc
    THEN Effect(text, err, last, 0, "next", o.read)
    ELSE Effect(text, err, ApiError(o.status), 1, "next", NoExc)

\* lines 125-130: the branch of every other status
BranchOther(o, text, err, last) ==
    IF o.read # NoExc
    THEN Effect(text, err, last, 0, "next", o.read)
    ELSE Effect(text, err, ApiError(o.status), 0, "break", NoExc)

\* lines 95-130: the body of the try statement once session.post has ended
TryBody(o, text, err, last) ==
    IF o.exc # NoExc THEN Effect(text, err, last, 0, "next", o.exc)
    ELSE IF o.status = 200 THEN Branch200(o, text, err, last)
    ELSE IF IsRetryableStatus(o.status) THEN BranchRetryable(o, text, err, last)
    ELSE BranchOther(o, text, err, last)

\* lines 132-139: the except clauses of the try statement
Handlers(r) ==
    IF r.exc = NoExc THEN r
    ELSE IF ConnHandles(r.exc) \/ GenericHandles(r.exc)
         THEN Effect(r.text, r.err, Caught(r.exc), 1, "next", NoExc)
         ELSE Effect(r.text, r.err, r.last, 0, "raise", r.exc)

\* lines 93-139 for an attempt that met outcome o
Attempt(o, text, err, last) == Handlers(TryBody(o, text, err, last))

\* wait_time of line 89
WaitTime(delay, n) == delay * n

\* a loop test that stops one attempt early
LoopTestStrict(n, budget) == n < budget

\* the loop test of line 87
LoopTest(n, budget) == n <= budget

\* a return that looks at last_error only
ReturnValueIgnoresFlag(err, last, text) == IF last # None THEN ErrorText ELSE text

\* lines 152-156: the value generate() returns
ReturnValue(err, last, text) == IF err /\ last # None THEN ErrorText ELSE text

----------------------------------------------------------------------------
(* State *)

VARIABLES
    model,          \* self.model
    api_key,        \* self.api_key
    api_endpoint,   \* self.api_endpoint
    request_timeout, \* self.request_timeout
    max_retries,    \* self.max_retries
    retry_delay,    \* self.retry_delay
    session,        \* self._session: NoSession, or the identity of a session
    open,           \* the sessions created and not closed
    created,        \* how many sessions the client has created
    now,            \* time.monotonic(), in ticks
    pc,             \* where each generate() call stands
    retries,        \* the local retries of each call
    is_error,       \* the local is_error
    last_error,     \* the local last_error
    response_text,  \* the local response_text
    start_time,     \* the local start_time
    latency,        \* the local latency
    wait_time,      \* the local wait_time
    data,           \* the local data: the request body
    used,           \* the local session: the session the latest request went through
    ctl,            \* how control leaves the try statement once finally has run
    escaped,        \* the exception that left generate(), NoExc when none did
    result,         \* the value generate() returned
    attempts,       \* how many times each call entered the try statement
    outcome,        \* what the latest attempt of each call met
    records,        \* the record_llm_call calls each call made: (latency, is_error)
    sleeps,         \* the asyncio.sleep calls each call made: their durations
    only_retryable, \* whether every attempt of the call so far was answered with
                    \* a status of 408, 429 or at least 500
    args,           \* the (prompt, system_prompt) each call was made with
    sent,           \* the request bodies each call has passed to session.post
    attempt_time,   \* when the latest attempt of each call entered the try statement
    cpc,            \* where each close() call stands
    target          \* the session whose close() each close() call awaits

config == <<model, api_key, api_endpoint, request_timeout, max_retries, retry_delay>>
shared == <<session, open, created>>
locals == <<retries, is_error, last_error, response_text, start_time, latency, wait_time,
            data, used, ctl>>
observed == <<attempts, outcome, records, sleeps, only_retryable, args, sent, attempt_time>>
closing == <<cpc, target>>
vars == <<config, shared, now, pc, locals, escaped, result, observed, closing>>

\* self._session = None of line 25
NoSession == 0

\* what time.monotonic() reads when the client is constructed: its origin is arbitrary
ClockOrigin == 5

\* how long session.post and the reading of its response take, in ticks
NetDelays == {1}

\* the configurations the constructor accepts (lines 17-24 validate nothing)
RetryBudgets == -1..MaxRetries
RetryDelays == 1..MaxDelay

\* the attempt was answered, and with a status of 408, 429 or at least 500
AnsweredRetryable(o) == o.exc = NoExc /\ (o.status \in {408, 429} \/ o.status >= 500)

----------------------------------------------------------------------------
(* The request body, lines 44-57 *)

\* system_prompt = None of line 59
NoPrompt == [given |-> FALSE, text |-> <<>>]

\* a system_prompt that is a string
Prompt(t) == [given |-> TRUE, text |-> t]

\* if system_prompt: of line 47 (None and the empty string are false)
Truthy(sp) == sp.given /\ sp.text # <<>>

\* {"role": ..., "content": ...} of lines 48-49
Message(role, content) == [role |-> role, content |-> content]

\* max_tokens of line 55
MaxTokens == 1024

\* temperature of line 54, as a fraction
Temperature == <<2, 10>>

\* the body without its system message
PrepareUserOnly(m, prompt, sp) ==
    [model |-> m, messages |-> <<Message("user", prompt)>>,
     temperature |-> Temperature, max_tokens |-> MaxTokens]

\* lines 44-57: _prepare_request_data
PrepareRequestData(m, prompt, sp) ==
    [model |-> m,
     messages |-> (IF Truthy(sp) THEN <<Message("system", sp.text)>> ELSE <<>>)
                      \o <<Message("user", prompt)>>,
     temperature |-> Temperature,
     max_tokens |-> MaxTokens]

\* the prompts and system prompts generate() is called with
Prompts == {<<"a">>, <<"a", " ">>}
SystemPrompts == {NoPrompt, Prompt(<<>>), Prompt(<<" ">>), Prompt(<<"a">>)}

\* the body of a call that has not started
NoData == PrepareRequestData("", <<>>, NoPrompt)

----------------------------------------------------------------------------
(* The session and its connection pool, lines 28-42 *)

\* TCPConnector(limit=5) of line 33
ConnectorLimit == 5

\* the connections of session s in use: one for each request in flight through it
InUse(s) == Cardinality({c \in Calls : pc[c] = "post" /\ used[c] = s})

\* the connections in use over all the sessions the client has created
TotalInUse == Cardinality({c \in Calls : pc[c] = "post"})

\* a _get_session() that never reuses the held session
GetSessionAlwaysNew ==
    /\ created' = created + 1
    /\ session' = created + 1
    /\ open' = open \cup {created + 1}

\* a _get_session() that tests the reference only, not whether the session is closed
GetSessionIgnoresClosed ==
    IF session = NoSession
    THEN /\ created' = created + 1
         /\ session' = created + 1
         /\ open' = open \cup {created + 1}
    ELSE UNCHANGED <<session, open, created>>

\* lines 28-35: _get_session() returns the held session, or creates one
GetSession ==
    IF session = NoSession \/ session \notin open
    THEN /\ created' = created + 1
         /\ session' = created + 1
         /\ open' = open \cup {created + 1}
    ELSE UNCHANGED <<session, open, created>>

\* a close() that forgets line 41
NotCleared(s) == s

\* self._session = None of line 41
Cleared(s) == NoSession

----------------------------------------------------------------------------
(* Construction *)

\* lines 17-26: a client just constructed, no generate() and no close() call started
InitClient(budgets, delays) ==
    /\ model = "m"
    /\ api_key = "k"
    /\ api_endpoint = "https://api.openai.com/v1/chat/completions"
    /\ request_timeout = 30
    /\ max_retries \in budgets
    /\ retry_delay \in delays
    /\ session = NoSession
    /\ open = {}
    /\ created = 0
    /\ now = ClockOrigin
    /\ pc = [c \in Calls |-> "idle"]
    /\ retries = [c \in Calls |-> 0]
    /\ is_error = [c \in Calls |-> TRUE]
    /\ last_error = [c \in Calls |-> None]
    /\ response_text = [c \in Calls |-> EmptyText]
    /\ start_time = [c \in Calls |-> 0]
    /\ latency = [c \in Calls |-> 0]
    /\ wait_time = [c \in Calls |-> 0]
    /\ data = [c \in Calls |-> NoData]
    /\ used = [c \in Calls |-> NoSession]
    /\ ctl = [c \in Calls |-> "next"]
    /\ escaped = [c \in Calls |-> NoExc]
    /\ result = [c \in Calls |-> EmptyText]
    /\ attempts = [c \in Calls |-> 0]
    /\ outcome = [c \in Calls |-> NoOutcome]
    /\ records = [c \in Calls |-> <<>>]
    /\ sleeps = [c \in Calls |-> <<>>]
    /\ only_retryable = [c \in Calls |-> TRUE]
    /\ args = [c \in Calls |-> [prompt |-> <<>>, system_prompt |-> NoPrompt]]
    /\ sent = [c \in Calls |-> {}]
    /\ attempt_time = [c \in Calls |-> 0]
    /\ cpc = [k \in Closers |-> "idle"]
    /\ target = [k \in Closers |-> NoSession]

Init == InitClient(RetryBudgets, RetryDelays)

----------------------------------------------------------------------------
(* generate(), lines 59-156 *)

\* lines 70-85: the call starts with prompt p and system prompt sp
Generate(c, p, sp) ==
    /\ pc[c] = "idle"
    /\ data' = [data EXCEPT ![c] = PrepareRequestData(model, p, sp)]
    /\ response_text' = [response_text EXCEPT ![c] = EmptyText]
    /\ is_error' = [is_error EXCEPT ![c] = TRUE]
    /\ start_time' = [start_time EXCEPT ![c] = now]
    /\ latency' = [latency EXCEPT ![c] = 0]
    /\ retries' = [retries EXCEPT ![c] = 0]
    /\ last_error' = [last_error EXCEPT ![c] = None]
    /\ args' = [args EXCEPT ![c] = [prompt |-> p, system_prompt |-> sp]]
    /\ pc' = [pc EXCEPT ![c] = "while"]
    /\ UNCHANGED <<config, shared, now, wait_time, used, ctl, escaped, result, attempts,
                   outcome, records, sleeps, only_retryable, sent, attempt_time, closing>>

\* lines 87-91: the loop test, and the backoff sleep it starts on a retry
While(c) ==
    /\ pc[c] = "while"
    /\ IF LoopTest(retries[c], max_retries)
       THEN IF retries[c] > 0
            THEN /\ wait_time' = [wait_time EXCEPT ![c] = WaitTime(retry_delay, retries[c])]
                 /\ sleeps' = [sleeps EXCEPT ![c] = Append(@, wait_time'[c])]
                 /\ pc' = [pc EXCEPT ![c] = "sleep"]
            ELSE /\ pc' = [pc EXCEPT ![c] = "try"]
                 /\ UNCHANGED <<wait_time, sleeps>>
       ELSE /\ pc' = [pc EXCEPT ![c] = "return"]
            /\ UNCHANGED <<wait_time, sleeps>>
    /\ UNCHANGED <<config, shared, now, retries, is_error, last_error, response_text,
                   start_time, latency, data, used, ctl, escaped, result, attempts, outcome,
                   records, only_retryable, args, sent, attempt_time, closing>>

\* line 91: asyncio.sleep(wait_time) ends
Sleep(c) ==
    /\ pc[c] = "sleep"
    /\ now' = now + wait_time[c]
    /\ pc' = [pc EXCEPT ![c] = "try"]
    /\ UNCHANGED <<config, shared, locals, escaped, result, observed, closing>>

\* lines 93-100: the attempt enters the try statement, acquires the session and
\* passes data to session.post, which sends it at once when the pool of the
\* session has a connection to give and queues it in the connector otherwise
Try(c) ==
    /\ pc[c] = "try"
    /\ attempts[c] < MaxAttempts
    /\ GetSession
    /\ attempts' = [attempts EXCEPT ![c] = @ + 1]
    /\ attempt_time' = [attempt_time EXCEPT ![c] = now]
    /\ used' = [used EXCEPT ![c] = session']
    /\ sent' = [sent EXCEPT ![c] = @ \cup {data[c]}]
    /\ outcome' = [outcome EXCEPT ![c] = NoOutcome]
    /\ pc' = [pc EXCEPT ![c] = IF InUse(session') < ConnectorLimit THEN "post" ELSE "queued"]
    /\ UNCHANGED <<config, now, retries, is_error, last_error, response_text, start_time,
                   latency, wait_time, data, ctl, escaped, result, records, sleeps,
                   only_retryable, args, closing>>

\* lines 33, 95: a request queued in the connector of its session gets the
\* connection another request has given back
Connect(c) ==
    /\ pc[c] = "queued"
    /\ InUse(used[c]) < ConnectorLimit
    /\ pc' = [pc EXCEPT ![c] = "post"]
    /\ UNCHANGED <<config, shared, now, locals, escaped, result, observed, closing>>

\* retries += 1 of lines 109, 124, 135, 139, kept on the client for all its calls
RaisedOnClient(f, c, inc) == [d \in DOMAIN f |-> f[d] + inc]

\* retries += 1 of lines 109, 124, 135, 139: the local of call c goes up by inc
Raised(f, c, inc) == [f EXCEPT ![c] = @ + inc]

\* line 94: creating the session raises; lines 136-139 handle it
TryFails(c, e) ==
    /\ pc[c] = "try"
    /\ attempts[c] < MaxAttempts
    /\ session = NoSession \/ session \notin open
    /\ attempts' = [attempts EXCEPT ![c] = @ + 1]
    /\ attempt_time' = [attempt_time EXCEPT ![c] = now]
    /\ LET r == Handlers(Effect(response_text[c], is_error[c], last_error[c], 0, "next", e))
       IN  /\ last_error' = [last_error EXCEPT ![c] = r.last]
           /\ retries' = Raised(retries, c, r.inc)
           /\ ctl' = [ctl EXCEPT ![c] = r.ctl]
           /\ escaped' = [escaped EXCEPT ![c] = r.exc]
    /\ outcome' = [outcome EXCEPT ![c] = [NoOutcome EXCEPT !.exc = e]]
    /\ only_retryable' = [only_retryable EXCEPT ![c] = FALSE]
    /\ pc' = [pc EXCEPT ![c] = "finally"]
    /\ UNCHANGED <<config, shared, now, is_error, response_text, start_time, latency,
                   wait_time, data, used, result, records, sleeps, args, sent, closing>>

\* lines 95-139: session.post ends with outcome o after d ticks and the attempt
\* runs to its finally clause
Respond(c, o, d) ==
    /\ pc[c] = "post"
    /\ now' = now + d
    /\ LET r == Attempt(o, response_text[c], is_error[c], last_error[c])
       IN  /\ response_text' = [response_text EXCEPT ![c] = r.text]
           /\ is_error' = [is_error EXCEPT ![c] = r.err]
           /\ last_error' = [last_error EXCEPT ![c] = r.last]
           /\ retries' = Raised(retries, c, r.inc)
           /\ ctl' = [ctl EXCEPT ![c] = r.ctl]
           /\ escaped' = [escaped EXCEPT ![c] = r.exc]
    /\ outcome' = [outcome EXCEPT ![c] = o]
    /\ only_retryable' = [only_retryable EXCEPT ![c] = @ /\ AnsweredRetryable(o)]
    /\ pc' = [pc EXCEPT ![c] = "finally"]
    /\ UNCHANGED <<config, shared, start_time, latency, wait_time, data, used, result,
                   attempts, records, sleeps, args, sent, attempt_time, closing>>

\* a sink call made for failed attempts only
RecordedOnFailure(recs, lat, err) ==
    IF err THEN Append(recs, [latency |-> lat, is_error |-> err]) ELSE recs

\* lines 143-148: the call of record_llm_call, as the sink sees it
Recorded(recs, lat, err) == Append(recs, [latency |-> lat, is_error |-> err])

\* where control goes once the finally clause has run: an exception raised by the
\* clause replaces the pending break, continue or exception
AfterFinally(pending, sinkRaises) ==
    IF sinkRaises \/ pending = "raise" THEN "raised"
    ELSE IF pending = "break" THEN "return"
    ELSE "while"

\* a latency measured from the start of the attempt
MeasuredFromAttempt(c) == attempt_time[c]

\* the instant line 142 measures the latency from: start_time of line 80
MeasuredFrom(c) == start_time[c]

\* lines 141-149: the finally clause measures the latency and calls the sink
Finally(c, sinkRaises) ==
    /\ pc[c] = "finally"
    /\ latency' = [latency EXCEPT ![c] = now - MeasuredFrom(c)]
    /\ records' = [records EXCEPT ![c] = Recorded(@, latency'[c], is_error[c])]
    /\ escaped' = [escaped EXCEPT ![c] = IF sinkRaises THEN SinkError ELSE @]
    /\ pc' = [pc EXCEPT ![c] = AfterFinally(ctl[c], sinkRaises)]
    /\ UNCHANGED <<config, shared, now, retries, is_error, last_error, response_text,
                   start_time, wait_time, data, used, ctl, result, attempts, outcome, sleeps,
                   only_retryable, args, sent, attempt_time, closing>>

\* lines 151-156: generate() returns
Return(c) ==
    /\ pc[c] = "return"
    /\ result' = [result EXCEPT ![c] = ReturnValue(is_error[c], last_error[c], response_text[c])]
    /\ pc' = [pc EXCEPT ![c] = "done"]
    /\ UNCHANGED <<config, shared, now, locals, escaped, observed, closing>>

----------------------------------------------------------------------------
(* close(), lines 37-42 *)

\* line 39 finds no session, or a closed one: close() does nothing
CloseNothing(k) ==
    /\ cpc[k] = "idle"
    /\ ~(session # NoSession /\ session \in open)
    /\ cpc' = [cpc EXCEPT ![k] = "done"]
    /\ UNCHANGED <<config, shared, now, pc, locals, escaped, result, observed, target>>

\* lines 39-40: the held session is open; close() calls its close() and awaits it
CloseBegin(k) ==
    /\ cpc[k] = "idle"
    /\ session # NoSession /\ session \in open
    /\ target' = [target EXCEPT ![k] = session]
    /\ cpc' = [cpc EXCEPT ![k] = "awaiting"]
    /\ UNCHANGED <<config, shared, now, pc, locals, escaped, result, observed>>

\* line 40: the awaited session becomes closed, at some instant of the await
Shutdown(k) ==
    /\ cpc[k] = "awaiting"
    /\ open' = open \ {target[k]}
    /\ cpc' = [cpc EXCEPT ![k] = "closed"]
    /\ UNCHANGED <<config, session, created, now, pc, locals, escaped, result, observed,
                   target>>

\* lines 40-42: the await ends and close() clears the reference
CloseEnd(k) ==
    /\ cpc[k] = "closed"
    /\ session' = Cleared(session)
    /\ cpc' = [cpc EXCEPT ![k] = "done"]
    /\ UNCHANGED <<config, open, created, now, pc, locals, escaped, result, observed,
                   target>>

----------------------------------------------------------------------------
(* One generate() call on a client just constructed *)

FirstCall == {c \in Calls : \A d \in Calls : c <= d}

\* the arguments of that call
FirstPrompts == {<<"a">>}
FirstSystemPrompts == {NoPrompt}

Next ==
    \E c \in FirstCall :
        \/ \E p \in FirstPrompts, sp \in FirstSystemPrompts : Generate(c, p, sp)
        \/ While(c)
        \/ Sleep(c)
        \/ Try(c)
        \/ \E e \in AcquireExceptions : TryFails(c, e)
        \/ \E o \in Outcomes, d \in NetDelays : Respond(c, o, d)
        \/ \E sinkRaises \in BOOLEAN : Finally(c, sinkRaises)
        \/ Return(c)

Spec == Init /\ [][Next]_vars

----------------------------------------------------------------------------
(* One generate() call with every pair of arguments, against a service that *)
(* answers with text, with empty text, with 404 or with 500                 *)

RequestOutcomes ==
    {o \in Outcomes :
        /\ o.exc = NoExc /\ o.read = NoExc
        /\ \/ o.status \in {404, 500}
           \/ o.status = 200 /\ o.doc.shape = "text" /\ o.doc.content \in {<<>>, <<"a">>}}

InitRequest == InitClient({1, 2}, {1})

NextRequest ==
    \E c \in FirstCall :
        \/ \E p \in Prompts, sp \in SystemPrompts : Generate(c, p, sp)
        \/ While(c)
        \/ Sleep(c)
        \/ Try(c)
        \/ \E e \in AcquireExceptions : TryFails(c, e)
        \/ \E o \in RequestOutcomes, d \in NetDelays : Respond(c, o, d)
        \/ \E sinkRaises \in BOOLEAN : Finally(c, sinkRaises)
        \/ Return(c)

SpecRequest == InitRequest /\ [][NextRequest]_vars

----------------------------------------------------------------------------
(* Two generate() calls and the close() calls on one client, interleaved at *)
(* every await, against a service that answers with text or with 500        *)

ConcCalls == {c \in Calls : c <= 2}

ConcOutcomes ==
    {o \in Outcomes :
        /\ o.exc = NoExc /\ o.read = NoExc
        /\ \/ o.status = 500
           \/ o.status = 200 /\ o.doc.shape = "text" /\ o.doc.content = <<"a">>}

InitConc == InitClient({1}, {1})

\* calls start in the order of their names: call c is the next to start
NextToStart(c) == \A d \in Calls : d < c => pc[d] # "idle"
NextToClose(k) == \A j \in Closers : j < k => cpc[j] # "idle"

NextConc ==
    \/ \E c \in ConcCalls :
        \/ \E p \in FirstPrompts, sp \in FirstSystemPrompts :
               NextToStart(c) /\ Generate(c, p, sp)
        \/ While(c)
        \/ Sleep(c)
        \/ Try(c)
        \/ \E o \in ConcOutcomes : Respond(c, o, 0)
        \/ Finally(c, FALSE)
        \/ Return(c)
    \/ \E k \in Closers :
        \/ NextToClose(k) /\ CloseNothing(k)
        \/ NextToClose(k) /\ CloseBegin(k)
        \/ Shutdown(k)
        \/ CloseEnd(k)

SpecConc == InitConc /\ [][NextConc]_vars

----------------------------------------------------------------------------
(* More generate() calls than the pool has connections, each answered with *)
(* text on its first attempt                                               *)

PoolOutcomes ==
    {o \in Outcomes :
        /\ o.exc = NoExc /\ o.read = NoExc
        /\ o.status = 200 /\ o.doc.shape = "text" /\ o.doc.content = <<"a">>}

InitPool == InitClient({0}, {1})

NextPool ==
    \E c \in Calls :
        \/ \E p \in FirstPrompts, sp \in FirstSystemPrompts :
               NextToStart(c) /\ Generate(c, p, sp)
        \/ While(c)
        \/ Try(c)
        \/ Connect(c)
        \/ \E o \in PoolOutcomes : Respond(c, o, 0)
        \/ Finally(c, FALSE)
        \/ Return(c)

SpecPool == InitPool /\ [][NextPool]_vars

----------------------------------------------------------------------------
(* Vocabulary of the properties *)

\* the positions of s that hold no whitespace
Inked(s) == {i \in 1..Len(s) : s[i] \notin Whitespace}

\* s without its leading and trailing whitespace
Trimmed(s) ==
    IF Inked(s) = {} THEN <<>>
    ELSE SubSeq(s, CHOOSE i \in Inked(s) : \A j \in Inked(s) : i <= j,
                   CHOOSE i \in Inked(s) : \A j \in Inked(s) : i >= j)

\* the attempt got HTTP 200 with a body that reads, parses and holds a content string
HasText(o) == o.exc = NoExc /\ o.status = 200 /\ o.read = NoExc /\ o.doc.shape = "text"

\* Success: HTTP 200 with parseable text that is not empty once trimmed
IsSuccess(o) == HasText(o) /\ Trimmed(o.doc.content) # <<>>

\* HTTP 200 with parseable text that is empty or only whitespace
IsEmpty200(o) == HasText(o) /\ Trimmed(o.doc.content) = <<>>

\* a client-error status other than 408 and 429
IsTerminalStatus(o) == o.exc = NoExc /\ o.status \in (400..499) \ {408, 429}

\* the record of the latest attempt that ended
LastRecord(c) == records[c][Len(records[c])]

\* every record of the sequence is marked is_error = TRUE
AllErrors(recs) == \A i \in 1..Len(recs) : recs[i].is_error

----------------------------------------------------------------------------
(* C1 *)

\* C1: whatever an attempt meets (any status, a 200 body that does not parse or
\* lacks the text field, a connection failure, a timeout, any other exception
\* while acquiring the session, sending or reading), no exception of the attempt
\* leaves generate(); and a call that made an attempt and returns without its
\* last attempt being a Success returns the fixed error text.
C1_NoAttemptExceptionEscapes ==
    \A c \in Calls :
        /\ escaped[c] \in {NoExc, SinkError}
        /\ pc[c] = "raised" => escaped[c] = SinkError
        /\ (pc[c] = "done" /\ attempts[c] >= 1 /\ ~IsSuccess(outcome[c]))
               => result[c] = ErrorText

\* a call that met an exception of no named class returned the error text
C1_Witness ==
    \E c \in Calls :
        /\ pc[c] = "done"
        /\ outcome[c].exc = "ServerDisconnectedError"
        /\ result[c] = ErrorText

----------------------------------------------------------------------------
(* C2 *)

\* C2: a generate() call makes at most max_retries + 1 attempts, whatever the
\* remote service answers.
C2_AtMostBudgetPlusOneAttempts ==
    \A c \in Calls : attempts[c] <= max_retries + 1

----------------------------------------------------------------------------
(* C3 *)

\* C3: a failure of the sink's record_llm_call does not leave generate().
C3_SinkFailureAbsorbed ==
    \A c \in Calls : ~(pc[c] = "raised" /\ escaped[c] = SinkError)

----------------------------------------------------------------------------
(* C4 *)

\* C4: for every max_retries the constructor accepts, the value generate()
\* returns is the trimmed, non-empty text of a Success attempt or the fixed error
\* text, never the empty string.
C4_ReturnsTextOrPlaceholder ==
    \A c \in Calls :
        pc[c] = "done" =>
            /\ result[c] # <<>>
            /\ \/ result[c] = ErrorText
               \/ IsSuccess(outcome[c]) /\ result[c] = Trimmed(outcome[c].doc.content)

----------------------------------------------------------------------------
(* C5 *)

\* C5: generate() calls record_llm_call exactly once per attempt, whatever the
\* attempt met, before the next loop test, sleep or request and before it
\* returns: the records number the attempts entered, less the one in flight.
C5_OneRecordPerAttempt ==
    \A c \in Calls :
        Len(records[c]) = IF pc[c] \in {"post", "finally"} THEN attempts[c] - 1
                          ELSE attempts[c]

\* three attempts were recorded, the last after an exception of no named class
C5_Witness ==
    \E c \in Calls :
        /\ pc[c] = "while"
        /\ attempts[c] = 3
        /\ Len(records[c]) = 3
        /\ outcome[c].exc = "ServerDisconnectedError"

----------------------------------------------------------------------------
(* C6 *)

\* C6: a call whose every attempt was answered with a status of 408, 429 or at
\* least 500 ends after exactly max_retries + 1 attempts, with exactly
\* max_retries + 1 records, all marked is_error, and returns the fixed error text.
C6_AllRetryableExhaustsBudget ==
    \A c \in Calls :
        (attempts[c] >= 1 /\ only_retryable[c] /\ pc[c] \in {"return", "done"}) =>
            /\ attempts[c] = max_retries + 1
            /\ Len(records[c]) = max_retries + 1
            /\ AllErrors(records[c])
            /\ pc[c] = "done" => result[c] = ErrorText

\* a call with the largest budget was answered 500 until the budget ran out
C6_Witness ==
    \E c \in Calls :
        /\ pc[c] = "done"
        /\ only_retryable[c]
        /\ max_retries = MaxRetries
        /\ attempts[c] = MaxRetries + 1
        /\ outcome[c].status = 500
        /\ result[c] = ErrorText

----------------------------------------------------------------------------
(* C7 *)

\* C7: once an attempt has received a client-error status other than 408 and
\* 429, the loop is over whatever budget remains: no backoff sleep and no further
\* attempt follows, the attempt's one record is marked is_error, and generate()
\* returns the fixed error text.
C7_TerminalStatusAborts ==
    \A c \in Calls :
        IsTerminalStatus(outcome[c]) =>
            /\ pc[c] \notin {"sleep", "try", "post"}
            /\ is_error[c]
            /\ pc[c] \in {"return", "done"} =>
                   Len(records[c]) = attempts[c] /\ LastRecord(c).is_error
            /\ pc[c] = "done" => result[c] = ErrorText

----------------------------------------------------------------------------
(* C8 *)

\* C8: when the first attempt receives HTTP 200 with parseable, non-empty text,
\* no loop test, sleep or second attempt follows, the call has slept at no time,
\* its one record is marked is_error = FALSE, and generate() returns that text
\* trimmed.
C8_FirstAttemptSuccess ==
    \A c \in Calls :
        (attempts[c] = 1 /\ IsSuccess(outcome[c])) =>
            /\ pc[c] \in {"finally", "return", "done", "raised"}
            /\ sleeps[c] = <<>>
            /\ pc[c] = "finally" => ctl[c] = "break" /\ ~is_error[c]
            /\ pc[c] \in {"return", "done"} =>
                   Len(records[c]) = 1 /\ ~records[c][1].is_error
            /\ pc[c] = "done" => result[c] = Trimmed(outcome[c].doc.content)

\* the first attempt met " a " and generate() returned "a"
C8_Witness ==
    \E c \in Calls :
        /\ pc[c] = "done"
        /\ attempts[c] = 1
        /\ outcome[c].status = 200
        /\ outcome[c].doc.content = <<" ", "a", " ">>
        /\ result[c] = <<"a">>
        /\ Len(records[c]) = 1

----------------------------------------------------------------------------
(* C9 *)

\* an attempt that met HTTP 200 with empty text is marked an error, leaves the
\* try statement by continue, and its record is marked is_error
C9_EmptyIsFailure ==
    \A c \in Calls :
        IsEmpty200(outcome[c]) =>
            /\ is_error[c]
            /\ last_error[c] = EmptyResponse
            /\ pc[c] = "finally" => ctl[c] = "continue"
            /\ pc[c] \notin {"finally", "raised"} =>
                   Len(records[c]) = attempts[c] /\ LastRecord(c).is_error

\* a call that returns after a Success returns that attempt's text, trimmed
C9_LaterTextReturned ==
    \A c \in Calls :
        (pc[c] = "done" /\ IsSuccess(outcome[c])) =>
            /\ result[c] = Trimmed(outcome[c].doc.content)
            /\ result[c] \notin {<<>>, ErrorText}

\* the attempt that meets HTTP 200 with empty text raises retries by one
C9_EmptyConsumesRetry ==
    \A c \in Calls :
        (pc[c] = "post" /\ pc'[c] = "finally" /\ IsEmpty200(outcome'[c])) =>
            retries'[c] = retries[c] + 1

\* C9: HTTP 200 with empty or whitespace-only content is a retryable failure: it
\* consumes one retry and is recorded as an error; a later attempt that returns
\* non-empty text makes generate() return that text.
C9_EmptyTextRetried ==
    /\ [](C9_EmptyIsFailure /\ C9_LaterTextReturned)
    /\ [][C9_EmptyConsumesRetry]_vars

\* a call met whitespace-only text, retried, met "a" and returned "a"
C9_Witness ==
    \E c \in Calls :
        /\ pc[c] = "done"
        /\ last_error[c] = EmptyResponse
        /\ retries[c] = 1
        /\ attempts[c] = 2
        /\ IsSuccess(outcome[c])
        /\ result[c] = <<"a">>

----------------------------------------------------------------------------
(* C10 *)

\* C10: every attempt after the first is preceded by a sleep, the first by
\* none, and the sleep before the n-th retry lasts retry_delay * n: when a call
\* has a request in flight, it has slept once per earlier attempt, the i-th time
\* for retry_delay * i.
C10_SleepBeforeEveryRetry ==
    \A c \in Calls :
        pc[c] = "post" =>
            /\ Len(sleeps[c]) = attempts[c] - 1
            /\ \A i \in 1..Len(sleeps[c]) : sleeps[c][i] = retry_delay * i

----------------------------------------------------------------------------
(* C11 *)

\* the client holds no session, or a closed one
NothingOpenHeld == session = NoSession \/ session \notin open

\* close() found nothing to close: it returns at once and changes nothing
C11_NoOpWhenNothingOpen ==
    \A k \in Closers :
        (cpc[k] = "idle" /\ cpc'[k] = "done") =>
            NothingOpenHeld /\ UNCHANGED <<session, open, created>>

\* close() found an open session: that session is closed when the await ends,
\* and the client holds no reference when close() returns
C11_ClosesAndClears ==
    \A k \in Closers :
        /\ (cpc[k] = "idle" /\ cpc'[k] = "awaiting") =>
               target'[k] = session /\ session \in open
        /\ cpc'[k] \in {"closed", "done"} => target'[k] \notin open'
        /\ (cpc[k] = "closed" /\ cpc'[k] = "done") => session' = NoSession

\* the attempt that follows creates a session never seen before, open, and
\* sends through it
C11_NextAttemptRecreates ==
    \A c \in Calls :
        (pc[c] = "try" /\ pc'[c] = "post" /\ NothingOpenHeld) =>
            /\ session' > created
            /\ session' \in open'
            /\ used'[c] = session'

\* C11: close() on a client that holds no session or a closed one (never opened,
\* closed before, closed twice) changes nothing and raises nothing, and the next
\* attempt of generate() creates a fresh open session; close() on an open session
\* closes it and leaves the client without a session reference.
C11_CloseIdempotent ==
    [][C11_NoOpWhenNothingOpen /\ C11_ClosesAndClears /\ C11_NextAttemptRecreates]_vars

\* a session was opened and closed by the first close(), the second close()
\* found nothing to close, and the next attempt sends through a second session
C11_Witness ==
    /\ cpc[1] = "done" /\ target[1] = 1
    /\ cpc[2] = "done" /\ target[2] = NoSession
    /\ created = 2 /\ session = 2 /\ open = {2}
    /\ \E c \in Calls : pc[c] = "post" /\ used[c] = 2

----------------------------------------------------------------------------
(* C12 *)

\* C12: however many generate() calls run concurrently on the client, their
\* requests all go through the one session the client holds, whose pool gives
\* out at most ConnectorLimit connections: the client never has more than 5
\* connections in use, and the requests beyond 5 wait in the connector.
C12_ConnectionsCapped ==
    /\ TotalInUse <= ConnectorLimit
    /\ created <= 1
    /\ \A c \in Calls : pc[c] \in {"post", "queued"} => used[c] = session /\ session \in open

\* five requests are in flight through the one session and a sixth call waits
\* for a connection
C12_Witness ==
    /\ TotalInUse = ConnectorLimit
    /\ created = 1
    /\ \E c \in Calls : pc[c] = "queued" /\ used[c] = session

----------------------------------------------------------------------------
(* C13 *)

\* the attempt met what the specification classifies as a RetryableFailure:
\* no response at all (connection failure, timeout, any other exception), HTTP
\* 200 without usable text (body unread, unparseable, field missing, text
\* empty), or a status of 408, 429 or at least 500
IsRetryableFailure(o) ==
    \/ o.exc # NoExc
    \/ o.exc = NoExc /\ o.status = 200 /\ ~IsSuccess(o)
    \/ o.exc = NoExc /\ IsRetryableStatus(o.status)

\* the attempt met a TerminalFailure whose body was read
IsTerminalFailure(o) == IsTerminalStatus(o) /\ o.read = NoExc

\* C13: the attempt that ends as a RetryableFailure of any kind raises the
\* call's retries by exactly one; the attempt that ends as a Success or as a
\* TerminalFailure leaves retries as it was.
C13_RetryableConsumesOneRetry ==
    [][\A c \in Calls :
          (pc[c] \in {"try", "post"} /\ pc'[c] = "finally") =>
              /\ IsRetryableFailure(outcome'[c]) => retries'[c] = retries[c] + 1
              /\ (IsSuccess(outcome'[c]) \/ IsTerminalFailure(outcome'[c]))
                     => retries'[c] = retries[c]]_vars

----------------------------------------------------------------------------
(* C18 *)

\* the records of call c that are marked is_error = FALSE
NonErrors(c) == {i \in 1..Len(records[c]) : ~records[c][i].is_error}

\* C18: a call has at most one record marked is_error = FALSE; that record is
\* the last of the call and the record of a Success attempt, after which no
\* attempt follows; the record of an attempt that ended in a failure is marked
\* is_error = TRUE; and a call that has returned has such a record exactly when
\* it returned the trimmed text of its Success rather than the error text.
C18_OneSuccessRecordLast ==
    \A c \in Calls :
        /\ Cardinality(NonErrors(c)) <= 1
        /\ \A i \in NonErrors(c) :
               /\ i = Len(records[c])
               /\ i = attempts[c]
               /\ IsSuccess(outcome[c])
               /\ pc[c] \in {"return", "done", "raised"}
        /\ (Len(records[c]) = attempts[c] /\ attempts[c] >= 1 /\ ~IsSuccess(outcome[c]))
               => LastRecord(c).is_error
        /\ pc[c] = "done" =>
               /\ NonErrors(c) # {} <=>
                      (IsSuccess(outcome[c]) /\ result[c] = Trimmed(outcome[c].doc.content))
               /\ (NonErrors(c) = {} /\ attempts[c] >= 1) => result[c] = ErrorText

\* a call failed twice, by a status of 500 and by a timeout, then met text: three
\* records, only the last marked is_error = FALSE, and the text returned
C18_Witness ==
    \E c \in Calls :
        /\ pc[c] = "done"
        /\ Len(records[c]) = 3
        /\ NonErrors(c) = {3}
        /\ last_error[c] = Caught("TimeoutError")
        /\ result[c] = <<"a", " ", "a">>

----------------------------------------------------------------------------
(* C19 *)

RECURSIVE SumTo(_, _)
\* the sum of the first n elements of the sequence s
SumTo(s, n) == IF n = 0 THEN 0 ELSE s[n] + SumTo(s, n - 1)

\* C19: the latency of a record is the time elapsed since generate() was called,
\* not since the attempt began: when an attempt has just been recorded its record
\* holds the clock's reading less the reading at the call's start, which is at
\* least the sum of the backoff sleeps the call has taken; and the latencies of
\* a call never decrease.
C19_LatencySinceCallStart ==
    \A c \in Calls :
        /\ (pc[c] \in {"while", "return", "done", "raised"} /\ attempts[c] >= 1) =>
               /\ LastRecord(c).latency = now - start_time[c]
               /\ LastRecord(c).latency >= SumTo(sleeps[c], Len(sleeps[c]))
        /\ \A j, k \in 1..Len(records[c]) :
               j <= k => records[c][j].latency <= records[c][k].latency

\* with retry_delay = 2 and one tick per request, the second record of a call
\* holds 1 + 2 + 1 = 4 ticks and the third 4 + 4 + 1 = 9, though each attempt
\* took one tick
C19_Witness ==
    \E c \in Calls :
        /\ retry_delay = 2
        /\ start_time[c] = ClockOrigin
        /\ Len(records[c]) = 3
        /\ records[c][1].latency = 1
        /\ records[c][2].latency = 4
        /\ records[c][3].latency = 9
        /\ attempt_time[c] = now - 1

----------------------------------------------------------------------------
(* C14 *)

\* C14: under every interleaving of close() with generate() calls, each session
\* the client has created and that is still open is the session the client
\* references: no open session is left without a reference, and at most one
\* session is open at a time.
C14_NoOpenSessionLeaked ==
    \A s \in open : s = session

----------------------------------------------------------------------------
(* C15 *)

\* the attempt of call c acquires the session and sends in this step
Acquires(c) == pc[c] = "try" /\ pc'[c] \in {"post", "queued"}

\* _get_session gives the held session when it is open and a new one otherwise,
\* and nothing else creates a session
C15_GetOrCreate ==
    /\ \A c \in Calls :
           Acquires(c) =>
               /\ used'[c] = session'
               /\ session' \in open'
               /\ IF session # NoSession /\ session \in open
                  THEN session' = session /\ created' = created /\ open' = open
                  ELSE created' = created + 1 /\ session' = created' /\ session' \notin open
    /\ created' # created => \E c \in Calls : Acquires(c)

\* no close() call has started
NoCloseYet == \A k \in Closers : cpc[k] = "idle"

\* without a close(), one session serves every attempt of every call
C15_OneSessionWithoutClose ==
    NoCloseYet =>
        /\ created <= 1
        /\ \A c \in Calls : used[c] # NoSession => used[c] = session /\ session \in open
        /\ created = 1 <=> \E c \in Calls : used[c] # NoSession

\* C15: _get_session returns the held session when one is present and open and
\* creates a session only when the reference is absent or the held session is
\* closed; so as long as no close() is called, all the attempts of all the calls
\* create exactly one session and all use it.
C15_SessionReused ==
    /\ [][C15_GetOrCreate]_vars
    /\ []C15_OneSessionWithoutClose

\* two calls have made two attempts each with no close(): one session was
\* created and the requests in flight both go through it
C15_Witness ==
    /\ NoCloseYet
    /\ created = 1 /\ session = 1
    /\ \A c \in ConcCalls : attempts[c] = 2 /\ pc[c] = "post" /\ used[c] = 1

----------------------------------------------------------------------------
(* C16 *)

\* no step of generate() or close() changes the configuration
C16_ConfigurationKept ==
    /\ model' = model
    /\ api_key' = api_key
    /\ api_endpoint' = api_endpoint
    /\ request_timeout' = request_timeout
    /\ max_retries' = max_retries
    /\ retry_delay' = retry_delay

\* a step that is not a step of call d (a step of another call, or of close())
\* leaves the retry counter, last error, error flag and response text of d alone
C16_LocalsOfOthersKept ==
    \A d \in Calls :
        pc'[d] = pc[d] =>
            /\ retries'[d] = retries[d]
            /\ last_error'[d] = last_error[d]
            /\ is_error'[d] = is_error[d]
            /\ response_text'[d] = response_text[d]

\* C16: generate() and close() never change the configuration of the client
\* (model, credential, endpoint, request timeout, max_retries, retry_delay), and
\* the retry counter, last error, error flag and response text of a generate()
\* call are changed by that call alone, whatever runs concurrently.
C16_FrameOfCalls ==
    [][C16_ConfigurationKept /\ C16_LocalsOfOthersKept]_vars

\* after a close(), one call has returned text on its first attempt while the
\* other has failed once and is retrying: their locals differ, the configuration
\* is the constructor's
C16_Witness ==
    /\ \E k \in Closers : cpc[k] = "done" /\ target[k] # NoSession
    /\ pc[1] = "done" /\ retries[1] = 0 /\ ~is_error[1] /\ response_text[1] = <<"a">>
    /\ pc[2] = "post" /\ retries[2] = 1 /\ is_error[2] /\ last_error[2] = ApiError(500)
    /\ max_retries = 1 /\ retry_delay = 1 /\ model = "m" /\ request_timeout = 30

----------------------------------------------------------------------------
(* C17 *)

\* a system instruction is supplied: the argument is a string and holds text
\* (generate() takes None and the empty string alike as no instruction)
Supplied(sp) == sp.given /\ Len(sp.text) > 0

\* the body the specification describes for the arguments a
ExpectedBody(a) ==
    [model |-> model,
     messages |->
         IF Supplied(a.system_prompt)
         THEN <<[role |-> "system", content |-> a.system_prompt.text],
                [role |-> "user", content |-> a.prompt]>>
         ELSE <<[role |-> "user", content |-> a.prompt]>>,
     temperature |-> <<2, 10>>,
     max_tokens |-> 1024]

\* the body of a call that has started is the expected one, and no other body
\* has been passed to session.post
C17_BodyAsSpecified ==
    \A c \in Calls :
        pc[c] # "idle" =>
            /\ data[c] = ExpectedBody(args[c])
            /\ sent[c] \subseteq {ExpectedBody(args[c])}
            /\ (attempts[c] >= 1 /\ used[c] # NoSession) => sent[c] = {ExpectedBody(args[c])}

\* the body is built once: no step of a started call changes it
C17_BodyBuiltOnce ==
    \A c \in Calls : pc[c] # "idle" => data'[c] = data[c]

\* C17: the request body holds the messages [system, user] in that order when a
\* system instruction is supplied and [user] alone otherwise, with temperature
\* 0.2 and max_tokens 1024; it is built once per call and the same body is sent
\* on every attempt.
C17_RequestBody ==
    /\ []C17_BodyAsSpecified
    /\ [][C17_BodyBuiltOnce]_vars

\* a call with a system instruction has sent its third request: the one body it
\* has ever sent holds the system message, then the user message
C17_Witness ==
    \E c \in Calls :
        /\ pc[c] = "post"
        /\ attempts[c] = 3
        /\ args[c].system_prompt = Prompt(<<"a">>)
        /\ Cardinality(sent[c]) = 1
        /\ \A b \in sent[c] :
               /\ Len(b.messages) = 2
               /\ b.messages[1].role = "system"
               /\ b.messages[2] = [role |-> "user", content |-> args[c].prompt]

=============================================================================
